---- MODULE Spec2Model ----
(***************************************************************************)
(* State-machine model of the level loop of KnifeToGunFight:               *)
(*   Code/StateHandlers/LevelHandler.py  (LevelHandler.Run and helpers)    *)
(*   Code/Objects/Laser.py               (Laser.Update, Laser.Reflect)     *)
(* One iteration of the loop of Run is split at its statement groups       *)
(* (teleporter + player interaction, enemies, lasers, player/sword,        *)
(* screen); pc is the position of Run inside the iteration.                *)
(*                                                                         *)
(* Classes the two files call but do not define (LevelMap, GameObject,     *)
(* Player, Sword, Teleporter, enemies, CollisionDetection, Pathing) are    *)
(* modelled from the written specification of the game.                    *)
(* Run passes the elapsed time to laser.Update although Laser.Update takes *)
(* no argument: the call raises TypeError, which nothing catches, so Run   *)
(* is left by the exception in the first laser loop that finds a laser.    *)
(* HasBeenReflected is read by UpdateEnemies and assigned nowhere in the   *)
(* two files: a laser has the attribute only if code outside them gave it  *)
(* one (field hasattr of a laser), and the read of a laser without it      *)
(* raises AttributeError, which leaves UpdateEnemies and Run.              *)
(*                                                                         *)
(* Specifications:                                                         *)
(*   Spec           the game from the load of a level file                 *)
(*   SpecMarked     the game from the start of an iteration in the middle  *)
(*                  of play, with or without one laser in flight           *)
(*   SpecReflect    Laser.Reflect on its own                               *)
(*   SpecEnemyPass  UpdateEnemies on its own, in the 5x5 open room         *)
(*   SpecSwordCheck the player update and sword check of Run on their own  *)
(***************************************************************************)
EXTENDS Integers, Sequences, FiniteSets, TLC

\* ------------------------------------------------------------------ bounds
\* Most lasers in the map at once (an enemy whose shot would exceed it is
\* still cooling down).
MaxLasers == 2
\* Largest trajectory component of a laser drawn for Reflect on its own.
MaxTrajectory == 2

\* --------------------------------------------------------------- geometry
\* GameObject.WidthPixels / HeightPixels: the side of one grid cell.
WidthPixels == 2
HeightPixels == 2
\* Pixels moved by one MoveUp/MoveLeft/MoveDown/MoveRight of the player.
PlayerSpeed == 2
\* Pixels moved by one Move* of a walking enemy.
EnemySpeed == 2
\* Pixels per update of a laser fired by an enemy.
LaserSpeed == 1
\* How far the swinging sword's bounding rectangle reaches beyond the player.
SwordReach == 1

\* The level files Level<n>.txt that exist.
LevelFiles == {1, 2, 3}

\* Further maps a LevelHandler can be constructed with: a corridor whose
\* walker is walled off from the player, the 5x5 open room, and a room with
\* two walls side by side and no teleporter.  The corridor is loaded like a
\* level file; it has no successor.
WalledMap == 5
OpenMap == 6
BareMap == 7

Rect(x, y) == [x |-> x, y |-> y, w |-> WidthPixels, h |-> HeightPixels]
CellRect(cell) == Rect(cell[1] * WidthPixels, cell[2] * HeightPixels)
Coordinates(o) == Rect(o.x, o.y)

\* pygame.Rect.colliderect: overlap of the interiors; touching edges do not
\* collide.
colliderect(a, b) ==
    /\ a.x < b.x + b.w
    /\ b.x < a.x + a.w
    /\ a.y < b.y + b.h
    /\ b.y < a.y + a.h

\* ----------------------------------------------------------------- levels
\* The static layout the level loader produces for each level file.
LevelCols(level) ==
    CASE level = WalledMap -> 6
      [] level = OpenMap -> 5
      [] OTHER -> 3
LevelRows(level) ==
    CASE level = WalledMap -> 1
      [] level = OpenMap -> 5
      [] OTHER -> 2
LevelWalls(level) ==
    CASE level = WalledMap -> {<<3, 0>>}
      [] level = OpenMap -> {}
      [] level = BareMap -> {<<0, 0>>, <<1, 0>>}
      [] OTHER -> {<<0, 0>>}
LevelPlayer(level) ==
    CASE level \in {WalledMap, OpenMap} -> <<0, 0>>
      [] level = BareMap -> <<0, 1>>
      [] OTHER -> <<1, 1>>
LevelHasTeleporter(level) == level \in LevelFiles
LevelTeleporter(level) == <<0, 1>>
LevelEnemies(level) ==
    CASE level = 1 -> << [id |-> 1, kind |-> "Turret", x |-> 2 * WidthPixels, y |-> 0] >>
      [] level = 3 -> << [id |-> 1, kind |-> "Walker", x |-> 2 * WidthPixels, y |-> 0] >>
      [] level = WalledMap ->
            << [id |-> 1, kind |-> "Walker", x |-> 5 * WidthPixels, y |-> 0],
               [id |-> 2, kind |-> "Turret", x |-> 2 * WidthPixels, y |-> 0] >>
      [] level = OpenMap ->
            << [id |-> 1, kind |-> "Walker", x |-> 4 * WidthPixels, y |-> 4 * HeightPixels] >>
      [] level = BareMap ->
            << [id |-> 1, kind |-> "Turret", x |-> 2 * WidthPixels, y |-> HeightPixels] >>
      [] OTHER -> << >>

GetWalls(level) == {CellRect(c) : c \in LevelWalls(level)}

\* LevelMap.ObjectInBounds: the rectangle lies fully within the grid's pixel
\* extent.
ObjectInBounds(level, r) ==
    /\ r.x >= 0
    /\ r.y >= 0
    /\ r.x + r.w <= LevelCols(level) * WidthPixels
    /\ r.y + r.h <= LevelRows(level) * HeightPixels

\* -------------------------------------------------------------- sequences
RemoveAt(s, i) == SubSeq(s, 1, i - 1) \o SubSeq(s, i + 1, Len(s))
Ids(s) == {s[i].id : i \in 1..Len(s)}
ById(s, id) == s[CHOOSE i \in 1..Len(s) : s[i].id = id]
\* list.remove(x): drops the first element that is x; ValueError when absent.
ListRemove(s, id) ==
    IF id \in Ids(s)
    THEN RemoveAt(s, CHOOSE i \in 1..Len(s) : s[i].id = id /\ \A j \in 1..(i - 1) : s[j].id # id)
    ELSE s

\* ------------------------------------------------------------------ Laser
\* Laser.Reflect with only the X component reversed.
Reflect_OnlyX(laser) == [laser EXCEPT !.tx = laser.tx * (-1)]

\* Laser.Reflect: both trajectory components times REVERSE_DIRECTION.
Reflect(laser) == [laser EXCEPT !.tx = laser.tx * (-1), !.ty = laser.ty * (-1)]

\* "def Update(self)" called with argc arguments besides self: every call
\* with an argument raises TypeError.
LaserUpdateRaises(argc) == argc # 0

\* Laser.Update: Move(Trajectory.X, Trajectory.Y).
LaserUpdate(laser) == [laser EXCEPT !.x = laser.x + laser.tx, !.y = laser.y + laser.ty]

\* ------------------------------------------------------------------ state
\* tick is a record of the current iteration for the properties below: what
\* each of its steps did.
VARIABLES
    pc,                    \* position of Run inside one iteration of its loop
    LevelFilepath,         \* self.LevelFilepath, as the level number
    NextHandler,           \* level number of the handler Run returned, 0 if none
    Player,                \* top-left pixel of the player's rectangle
    IsSwinging,            \* player.Sword.IsSwinging
    Enemies,               \* the map's enemies in map iteration order
    Lasers,                \* self.Map.Lasers
    Teleporter,            \* the map's teleporter (present = still in the map)
    teleporter_activated,  \* Run's local of the same name
    tick                   \* what happened so far in the current iteration

vars == <<pc, LevelFilepath, NextHandler, Player, IsSwinging, Enemies, Lasers,
          Teleporter, teleporter_activated, tick>>

NoTick ==
    [attempts |-> << >>, passStart |-> << >>, advanced |-> << >>,
     wallHit |-> {}, swordHit |-> {}, fired |-> {}, killed |-> {}, killers |-> {},
     spared |-> {}, policy |-> << >>, noRoute |-> {}, outOfBounds |-> {}]

\* LevelMap(level_filepath): the map as loaded from the level file.
LoadPlayer(level) == [x |-> LevelPlayer(level)[1] * WidthPixels,
                      y |-> LevelPlayer(level)[2] * HeightPixels]
LoadTeleporter(level) == [present |-> LevelHasTeleporter(level),
                          x |-> LevelTeleporter(level)[1] * WidthPixels,
                          y |-> LevelTeleporter(level)[2] * HeightPixels,
                          Activated |-> FALSE]

\* LevelHandler.__init__(game_window, level_filepath).
LevelHandlerInit(level) ==
    /\ pc = "interact"
    /\ LevelFilepath = level
    /\ NextHandler = 0
    /\ Player = LoadPlayer(level)
    /\ IsSwinging = FALSE
    /\ Enemies = LevelEnemies(level)
    /\ Lasers = << >>
    /\ Teleporter = LoadTeleporter(level)
    /\ teleporter_activated = FALSE
    /\ tick = NoTick

Init == \E level \in LevelFiles \cup {WalledMap} : LevelHandlerInit(level)

\* -------------------------------------------------------- collision moves
\* CollisionDetection for the player: the first object the attempted
\* rectangle intersects, in map order walls, enemies, teleporter.
PlayerCollidedObject(level, r, enemies, tele) ==
    IF \E wall \in GetWalls(level) : colliderect(wall, r) THEN "Wall"
    ELSE IF \E i \in 1..Len(enemies) : colliderect(Coordinates(enemies[i]), r) THEN "Enemy"
    ELSE IF tele.present /\ colliderect(Coordinates(tele), r) THEN "Teleporter"
    ELSE "None"

\* Player.MoveUp/MoveLeft/MoveDown/MoveRight(map, allowed_collision_classes):
\* m carries the player's position, the teleporter and the object returned.
\* An allowed object is walked onto and leaves the map; any other object, and
\* the edge of the grid, blocks the move.
PlayerMove(level, m, dx, dy, enemies, allowed) ==
    LET r == Rect(m.x + dx, m.y + dy)
        hit == PlayerCollidedObject(level, r, enemies, m.tele)
    IN  IF ~ObjectInBounds(level, r) THEN [m EXCEPT !.hit = "None"]
        ELSE IF hit = "None" THEN [m EXCEPT !.x = r.x, !.y = r.y, !.hit = "None"]
        ELSE IF hit = "Teleporter" /\ allowed
             THEN [m EXCEPT !.x = r.x, !.y = r.y, !.hit = "Teleporter",
                            !.tele = [m.tele EXCEPT !.present = FALSE]]
        ELSE [m EXCEPT !.hit = hit]

\* One "if currently_pressed_keys[k]: collided_object = player.Move..." of
\* HandlePlayerInteraction; attempts records what each attempt returned.
KeyStep(level, m, pressed, dx, dy, enemies, allowed) ==
    IF pressed
    THEN LET n == PlayerMove(level, m, dx, dy, enemies, allowed)
         IN  [n EXCEPT !.collided_object = n.hit, !.attempts = Append(m.attempts, n.hit)]
    ELSE m

\* The laser check of HandlePlayerInteraction left out.
FirstLaserHit_Never(player, lasers) == 0

\* "for laser in self.Map.Lasers: if player.Coordinates.colliderect(...)":
\* the position of the first laser the player's rectangle intersects, 0 if
\* there is none.
FirstLaserHit(player, lasers) ==
    IF \E i \in 1..Len(lasers) : colliderect(Coordinates(player), Coordinates(lasers[i]))
    THEN CHOOSE i \in 1..Len(lasers) :
            /\ colliderect(Coordinates(player), Coordinates(lasers[i]))
            /\ \A j \in 1..(i - 1) : ~colliderect(Coordinates(player), Coordinates(lasers[j]))
    ELSE 0

\* "collided_with_teleporter = isinstance(collided_object, Teleporter)".
CollidedWithTeleporter(collided_object) == collided_object = "Teleporter"

\* LevelHandler.HandlePlayerInteraction(teleporter_activated), after the
\* event loop: the four movement attempts in the order w, a, s, d, then the
\* laser check, then the teleporter test.
HandlePlayerInteraction(level, player, enemies, lasers, tele, keys, allowed) ==
    LET m0 == [x |-> player.x, y |-> player.y, tele |-> tele, hit |-> "None",
               collided_object |-> "None", attempts |-> << >>]
        m1 == KeyStep(level, m0, "w" \in keys, 0, -PlayerSpeed, enemies, allowed)
        m2 == KeyStep(level, m1, "a" \in keys, -PlayerSpeed, 0, enemies, allowed)
        m3 == KeyStep(level, m2, "s" \in keys, 0, PlayerSpeed, enemies, allowed)
        m4 == KeyStep(level, m3, "d" \in keys, PlayerSpeed, 0, enemies, allowed)
        hit == FirstLaserHit(m4, lasers)
    IN  [x |-> m4.x, y |-> m4.y, tele |-> m4.tele, attempts |-> m4.attempts,
         Lasers |-> IF hit = 0 THEN lasers ELSE RemoveAt(lasers, hit),
         collided_with_teleporter |->
             IF hit = 0 THEN CollidedWithTeleporter(m4.collided_object) ELSE FALSE,
         player_alive |-> (hit = 0)]

\* Teleporter.Update that activates the teleporter whatever the enemy count.
TeleporterUpdate_Always(tele, enemy_count) == [tele EXCEPT !.Activated = TRUE]

\* Teleporter.Update(time, enemy_count): activated when no enemy is left.
TeleporterUpdate(tele, enemy_count) == [tele EXCEPT !.Activated = (enemy_count = 0)]

\* Run, lines 63-92: teleporter update, player interaction, and the two
\* returns (restart of this level, next level).
Run_Interact ==
    /\ pc = "interact"
    /\ \E keys \in SUBSET {"w", "a", "s", "d"}, click \in BOOLEAN :
        LET tele == IF Teleporter.present
                    THEN TeleporterUpdate(Teleporter, Len(Enemies)) ELSE Teleporter
            activated == Teleporter.present /\ tele.Activated
            r == HandlePlayerInteraction(LevelFilepath, Player, Enemies, Lasers, tele,
                                         keys, activated)
        IN  /\ teleporter_activated' = activated
            /\ IsSwinging' = (IsSwinging \/ click)
            /\ Player' = [x |-> r.x, y |-> r.y]
            /\ Teleporter' = r.tele
            /\ Lasers' = r.Lasers
            /\ tick' = [NoTick EXCEPT !.attempts = r.attempts]
            /\ IF ~r.player_alive
               THEN pc' = "died" /\ NextHandler' = LevelFilepath
               ELSE IF r.collided_with_teleporter /\ activated
               THEN pc' = "complete" /\ NextHandler' = LevelFilepath + 1
               ELSE pc' = "enemies" /\ NextHandler' = 0
    /\ UNCHANGED <<LevelFilepath, Enemies>>

\* Run up to sys.exit() in HandlePlayerInteraction's event loop on pygame.QUIT
\* or Escape (lines 63-71 and 149-163): the teleporter has been updated, and
\* a mouse click queued before the quit event has swung the sword.
Run_Quit ==
    /\ pc = "interact"
    /\ \E click \in BOOLEAN :
        LET tele == IF Teleporter.present
                    THEN TeleporterUpdate(Teleporter, Len(Enemies)) ELSE Teleporter
        IN  /\ Teleporter' = tele
            /\ teleporter_activated' = (Teleporter.present /\ tele.Activated)
            /\ IsSwinging' = (IsSwinging \/ click)
    /\ pc' = "exited"
    /\ UNCHANGED <<LevelFilepath, NextHandler, Player, Enemies, Lasers, tick>>

\* The maps a LevelHandler can load.
MapExists(level) == level \in LevelFiles \cup {WalledMap, OpenMap, BareMap}

\* The main loop runs the handler Run returned: LevelHandler(game_window,
\* path) loads that level from its file; a level file that does not exist
\* ends the game.
RunReturnedHandler ==
    /\ pc \in {"died", "complete"}
    /\ IF MapExists(NextHandler)
       THEN /\ pc' = "interact"
            /\ LevelFilepath' = NextHandler
            /\ NextHandler' = 0
            /\ Player' = LoadPlayer(NextHandler)
            /\ IsSwinging' = FALSE
            /\ Enemies' = LevelEnemies(NextHandler)
            /\ Lasers' = << >>
            /\ Teleporter' = LoadTeleporter(NextHandler)
            /\ teleporter_activated' = FALSE
            /\ tick' = NoTick
       ELSE /\ pc' = "nolevel"
            /\ UNCHANGED <<LevelFilepath, NextHandler, Player, IsSwinging, Enemies,
                           Lasers, Teleporter, teleporter_activated, tick>>

\* ---------------------------------------------------------------- Pathing
\* LevelMap.GetGridPosition(pixel point): integer division by the cell size.
GetGridPosition(point) == <<point[1] \div WidthPixels, point[2] \div HeightPixels>>
\* pygame.Rect.center of an object's rectangle.
Center(o) == <<o.x + (WidthPixels \div 2), o.y + (HeightPixels \div 2)>>

Walkable(level, cell) ==
    /\ cell[1] \in 0..(LevelCols(level) - 1)
    /\ cell[2] \in 0..(LevelRows(level) - 1)
    /\ cell \notin LevelWalls(level)

\* The four neighbours of a cell in the fixed visit order up, down, left, right.
Adjacent(cell) == << <<cell[1], cell[2] - 1>>, <<cell[1], cell[2] + 1>>,
                    <<cell[1] - 1, cell[2]>>, <<cell[1] + 1, cell[2]>> >>

RECURSIVE PathTo(_, _, _)
PathTo(parents, origin, cell) ==
    IF cell = origin THEN <<origin>>
    ELSE Append(PathTo(parents, origin, parents[cell]), cell)

RECURSIVE BreadthFirst(_, _, _, _, _)
BreadthFirst(level, queue, parents, origin, target) ==
    IF queue = << >> THEN << >>
    ELSE LET cur == Head(queue)
             Fresh(c) == Walkable(level, c) /\ c \notin DOMAIN parents
             next == SelectSeq(Adjacent(cur), Fresh)
             found == [c \in DOMAIN parents \cup {next[i] : i \in 1..Len(next)} |->
                          IF c \in DOMAIN parents THEN parents[c] ELSE cur]
         IN  IF cur = target THEN PathTo(parents, origin, cur)
             ELSE BreadthFirst(level, Tail(queue) \o next, found, origin, target)

\* GetPath answering with the two end cells only.
GetPath_Ends(level, origin, target) == <<origin, target>>

\* Pathing.GetPath(origin, target): the breadth-first route over walkable
\* cells, both ends included; << >> stands for None.
GetPath(level, origin, target) ==
    IF ~Walkable(level, origin) THEN << >>
    ELSE BreadthFirst(level, <<origin>>, [c \in {origin} |-> origin], origin, target)

\* Pathing.GetDirectDistanceBetweenGridPositions, squared (cells).
DirectDistanceSquared(a, b) == (a[1] - b[1]) * (a[1] - b[1]) + (a[2] - b[2]) * (a[2] - b[2])

\* too_close_to_player computed with DESIRED_DISTANCE.
TooCloseToPlayer_Desired(d2) == 4 * d2 < 81

\* distance_to_player < MINIMUM_DISTANCE (3.5), as 4 d^2 < 49.
TooCloseToPlayer(d2) == 4 * d2 < 49
\* distance_to_player < DESIRED_DISTANCE (4.5), as 4 d^2 < 81.
WithinDesiredDistance(d2) == 4 * d2 < 81

\* GetDirectionTowardPosition with origin and target exchanged.
GetDirectionTowardPosition_Reversed(origin, target) ==
    (IF target[2] > origin[2] THEN <<"Up">> ELSE << >>)
    \o (IF target[2] < origin[2] THEN <<"Down">> ELSE << >>)
    \o (IF target[1] > origin[1] THEN <<"Left">> ELSE << >>)
    \o (IF target[1] < origin[1] THEN <<"Right">> ELSE << >>)

\* LevelHandler.GetDirectionTowardPosition(origin_position, target_position).
GetDirectionTowardPosition(origin, target) ==
    (IF origin[2] > target[2] THEN <<"Up">> ELSE << >>)
    \o (IF origin[2] < target[2] THEN <<"Down">> ELSE << >>)
    \o (IF origin[1] > target[1] THEN <<"Left">> ELSE << >>)
    \o (IF origin[1] < target[1] THEN <<"Right">> ELSE << >>)

\* ---------------------------------------------------------------- enemies
\* Enemy.MoveUp/MoveDown/MoveLeft/MoveRight(map): the enemy may overlap
\* nothing; walls, the player, other enemies, the teleporter and the edge of
\* the grid block the move.
EnemyMove(level, e, direction, player, enemies, tele) ==
    LET dx == CASE direction = "Left" -> -EnemySpeed [] direction = "Right" -> EnemySpeed
                [] OTHER -> 0
        dy == CASE direction = "Up" -> -EnemySpeed [] direction = "Down" -> EnemySpeed
                [] OTHER -> 0
        r == Rect(e.x + dx, e.y + dy)
        blocked ==
            \/ ~ObjectInBounds(level, r)
            \/ \E wall \in GetWalls(level) : colliderect(wall, r)
            \/ colliderect(Coordinates(player), r)
            \/ \E i \in 1..Len(enemies) :
                  enemies[i].id # e.id /\ colliderect(Coordinates(enemies[i]), r)
            \/ tele.present /\ colliderect(Coordinates(tele), r)
    IN  IF blocked THEN e ELSE [e EXCEPT !.x = r.x, !.y = r.y]

RECURSIVE MoveAlong(_, _, _, _, _, _)
\* "for direction in directions_to_move: enemy.Move<direction>(self.Map)".
MoveAlong(level, e, directions, player, enemies, tele) ==
    IF directions = << >> THEN e
    ELSE MoveAlong(level, EnemyMove(level, e, Head(directions), player, enemies, tele),
                   Tail(directions), player, enemies, tele)

\* The branch of "if too_close_to_player / elif within_desired_distance_of_
\* player / else" (lines 242-249) taken for a squared distance.
Zone(d2) ==
    IF TooCloseToPlayer(d2) THEN "RETREAT"
    ELSE IF WithinDesiredDistance(d2) THEN "HOLD"
    ELSE "APPROACH"

\* "next(islice(path_to_player, 1, None), None)": the second cell of the path.
NextGridPositionInPath(path) == path[2]

\* The directions a walking enemy tries this tick (lines 234-264): away from
\* the player when too close, none inside the desired distance or without a
\* path, otherwise toward the centre of the second cell of the path.
DirectionsToMove(level, e, player) ==
    LET player_position == GetGridPosition(Center(player))
        enemy_position == GetGridPosition(Center(e))
        d2 == DirectDistanceSquared(player_position, enemy_position)
        path == GetPath(level, enemy_position, player_position)
        next == NextGridPositionInPath(path)
        \* (next.X + 0.5) * WidthPixels, doubled so that it stays an integer
        next_center2 == <<(2 * next[1] + 1) * WidthPixels, (2 * next[2] + 1) * HeightPixels>>
        center2 == <<2 * Center(e)[1], 2 * Center(e)[2]>>
    IN  IF Zone(d2) = "RETREAT"
        THEN GetDirectionTowardPosition(player_position, enemy_position)
        ELSE IF Zone(d2) = "HOLD" THEN << >>
        ELSE IF path = << >> THEN << >>
        ELSE GetDirectionTowardPosition(center2, next_center2)

\* "if path_to_player is None: continue" (lines 253-255) is reached and taken.
HasNoRoute(level, e, player) ==
    /\ e.kind # "Turret"
    /\ Zone(DirectDistanceSquared(GetGridPosition(Center(player)),
                                  GetGridPosition(Center(e)))) = "APPROACH"
    /\ GetPath(level, GetGridPosition(Center(e)), GetGridPosition(Center(player))) = << >>

\* "enemy_is_stationary = isinstance(enemy, Turret)".
EnemyIsStationary(e) == e.kind = "Turret"

\* What UpdateEnemies did with one enemy, for the tick's record: where the
\* enemy was, whether it was removed, whether TargetPlayer and TryShooting
\* were called, and for a walking enemy the branch taken, the path asked for
\* and the directions tried.
PolicyRecord(level, e, player, hit) ==
    LET player_position == GetGridPosition(Center(player))
        enemy_position == GetGridPosition(Center(e))
        d2 == DirectDistanceSquared(player_position, enemy_position)
        walks == ~hit /\ ~EnemyIsStationary(e)
        asks == walks /\ Zone(d2) = "APPROACH"
    IN  [id |-> e.id, kind |-> e.kind, x |-> e.x, y |-> e.y, removed |-> hit,
         targeted |-> ~hit, tried |-> ~hit,
         zone |-> IF walks THEN Zone(d2) ELSE "NONE",
         path |-> IF asks THEN GetPath(level, enemy_position, player_position) ELSE << >>,
         directions |-> IF walks THEN DirectionsToMove(level, e, player) ELSE << >>]

Sign(n) == IF n > 0 THEN 1 ELSE IF n < 0 THEN -1 ELSE 0
FreeId(lasers) == CHOOSE id \in 1..(Len(lasers) + 1) : id \notin Ids(lasers)

\* Enemy.TryShooting on success: a laser at the enemy's position with a
\* trajectory pointed at the player.  Laser.__init__ assigns Image and
\* Trajectory only; assigned tells whether the code around it
\* (GameObject.__init__, TryShooting) gave the laser a HasBeenReflected
\* attribute, which then starts false.
NewLaser(e, player, lasers, assigned) ==
    [id |-> FreeId(lasers), x |-> e.x, y |-> e.y,
     tx |-> LaserSpeed * Sign(player.x - e.x), ty |-> LaserSpeed * Sign(player.y - e.y),
     HasBeenReflected |-> FALSE, hasattr |-> assigned]

\* lasers_that_kill_enemy without the HasBeenReflected test.
LasersThatKillEnemy_AnyLaser(e, lasers) ==
    {lasers[i].id : i \in {j \in 1..Len(lasers) :
        colliderect(Coordinates(e), Coordinates(lasers[j]))}}

\* "laser.HasBeenReflected" of line 212 is evaluated for every laser of the
\* list, before the rectangles are compared: AttributeError as soon as one
\* laser has no such attribute.
HasBeenReflectedRaises(lasers) == \E i \in 1..Len(lasers) : ~lasers[i].hasattr

\* "[laser for laser in self.Map.Lasers if laser.HasBeenReflected and
\*   enemy.Coordinates.colliderect(laser.Coordinates)]", as laser ids.
LasersThatKillEnemy(e, lasers) ==
    {lasers[i].id : i \in {j \in 1..Len(lasers) :
        lasers[j].HasBeenReflected /\ colliderect(Coordinates(e), Coordinates(lasers[j]))}}

RemoveObject(enemies, id) == SelectSeq(enemies, LAMBDA e : e.id # id)

\* One iteration of "for enemy in enemies" of UpdateEnemies.  st carries the
\* map's enemies and lasers and the tick's record, whether new lasers get
\* the HasBeenReflected attribute (assigned) and whether the loop was left
\* by an AttributeError (raised); ready is the set of enemies whose shoot
\* cooldown has run out.
EnemyStep(level, st, e, player, tele, ready) ==
    LET killers == LasersThatKillEnemy(e, st.Lasers)
        shoots == e.id \in ready /\ Len(st.Lasers) < MaxLasers
        laser == NewLaser(e, player, st.Lasers, st.assigned)
        lasers == IF shoots THEN Append(st.Lasers, laser) ELSE st.Lasers
        moved == IF EnemyIsStationary(e) THEN e
                 ELSE MoveAlong(level, e, DirectionsToMove(level, e, player),
                                player, st.Enemies, tele)
    IN  IF st.raised THEN st
        ELSE IF HasBeenReflectedRaises(st.Lasers) THEN [st EXCEPT !.raised = TRUE]
        ELSE IF killers # {}
        THEN [st EXCEPT !.Enemies = RemoveObject(st.Enemies, e.id),
                        !.tick.killed = @ \cup {e.id},
                        !.tick.killers = @ \cup killers,
                        !.tick.policy = Append(@, PolicyRecord(level, e, player, TRUE))]
        ELSE [st EXCEPT !.Enemies = [i \in 1..Len(st.Enemies) |->
                                        IF st.Enemies[i].id = e.id THEN moved
                                        ELSE st.Enemies[i]],
                        !.Lasers = lasers,
                        !.tick.fired = IF shoots THEN @ \cup {laser.id} ELSE @,
                        !.tick.spared = @ \cup LasersThatKillEnemy_AnyLaser(e, st.Lasers),
                        !.tick.policy = Append(@, PolicyRecord(level, e, player, FALSE)),
                        !.tick.noRoute = IF HasNoRoute(level, e, player) THEN @ \cup {e.id}
                                         ELSE @]

RECURSIVE EnemyLoop(_, _, _, _, _, _, _)
\* "for enemy in enemies" over the list GetEnemies returned (lines 208-209).
EnemyLoop(level, st, snapshot, i, player, tele, ready) ==
    IF i > Len(snapshot) THEN st
    ELSE EnemyLoop(level, EnemyStep(level, st, snapshot[i], player, tele, ready),
                   snapshot, i + 1, player, tele, ready)

\* LevelHandler.UpdateEnemies: enemies is the list GetEnemies returned when
\* the loop started.
UpdateEnemies(level, enemies, lasers, player, tele, t, ready, assigned) ==
    EnemyLoop(level, [Enemies |-> enemies, Lasers |-> lasers, tick |-> t,
                      assigned |-> assigned, raised |-> FALSE],
              enemies, 1, player, tele, ready)

\* Run, lines 94-95: UpdateEnemies, or the AttributeError of line 212
\* leaving Run with what the loop had done until then.
Run_UpdateEnemies ==
    /\ pc = "enemies"
    /\ \E ready \in SUBSET Ids(Enemies), assigned \in BOOLEAN :
        LET st == UpdateEnemies(LevelFilepath, Enemies, Lasers, Player, Teleporter,
                                NoTick, ready, assigned)
        IN  /\ Enemies' = st.Enemies
            /\ Lasers' = st.Lasers
            /\ tick' = st.tick
            /\ pc' = IF st.raised THEN "AttributeError" ELSE "lasers"
    /\ UNCHANGED <<LevelFilepath, NextHandler, Player, IsSwinging, Teleporter,
                   teleporter_activated>>

\* ----------------------------------------------------------------- lasers
\* The walls whose rectangle the laser's rectangle intersects.
WallsHit(level, laser) ==
    {wall \in GetWalls(level) : colliderect(wall, Coordinates(laser))}

RECURSIVE RemoveTimes(_, _, _)
\* "try: self.Map.Lasers.remove(laser) except: pass", once per wall hit.
RemoveTimes(lasers, id, n) ==
    IF n = 0 THEN lasers ELSE RemoveTimes(ListRemove(lasers, id), id, n - 1)

RECURSIVE LaserLoop(_, _, _, _)
\* "for laser in self.Map.Lasers" of Run (lines 98-110): i is the position
\* of the list iterator, which moves on by one whether or not the list
\* shrank under it.  The call laser.Update(time_since_last_update_in_
\* seconds) of line 99 passes one argument; when it raises, the loop and Run
\* end there with the list as it is.
LaserLoop(level, lasers, i, t) ==
    IF i > Len(lasers) THEN [Lasers |-> lasers, tick |-> t, raised |-> FALSE]
    ELSE IF LaserUpdateRaises(1) THEN [Lasers |-> lasers, tick |-> t, raised |-> TRUE]
    ELSE LET laser == LaserUpdate(lasers[i])
             updated == [lasers EXCEPT ![i] = laser]
             walls == WallsHit(level, laser)
         IN  LaserLoop(level, RemoveTimes(updated, laser.id, Cardinality(walls)), i + 1,
                       [t EXCEPT !.advanced = Append(@, laser.id),
                                 !.wallHit = IF walls = {} THEN @ ELSE @ \cup {laser}])

\* "[laser for laser in self.Map.Lasers if self.Map.ObjectInBounds(laser)]".
InBoundsOnly(level, lasers) ==
    SelectSeq(lasers, LAMBDA l : ObjectInBounds(level, Coordinates(l)))

\* Run, lines 97-113: the laser loop and the bounds filter, or the TypeError
\* of line 99 leaving Run.
Run_UpdateLasers ==
    /\ pc = "lasers"
    /\ LET r == LaserLoop(LevelFilepath, Lasers, 1,
                          [NoTick EXCEPT !.passStart = [i \in 1..Len(Lasers) |-> Lasers[i].id],
                                         !.noRoute = tick.noRoute])
           kept == InBoundsOnly(LevelFilepath, r.Lasers)
       IN  IF r.raised
           THEN /\ pc' = "TypeError"
                /\ Lasers' = r.Lasers
                /\ tick' = r.tick
           ELSE /\ pc' = "player"
                /\ Lasers' = kept
                /\ tick' = [r.tick EXCEPT !.outOfBounds =
                               {r.Lasers[i] : i \in {j \in 1..Len(r.Lasers) :
                                                       r.Lasers[j].id \notin Ids(kept)}}]
    /\ UNCHANGED <<LevelFilepath, NextHandler, Player, IsSwinging, Enemies, Teleporter,
                   teleporter_activated>>

\* ------------------------------------------------------------------ sword
\* player.Sword.BoundingScreenRectangle while the sword swings: the player's
\* rectangle grown by the sword's reach on every side.
SwordBoundingRectangle(player) ==
    [x |-> player.x - SwordReach, y |-> player.y - SwordReach,
     w |-> WidthPixels + 2 * SwordReach, h |-> HeightPixels + 2 * SwordReach]

\* "sword_bounding_rectangle.colliderect(projectile_rectangle)".
SwordCollides(player, laser) ==
    colliderect(SwordBoundingRectangle(player), Coordinates(laser))

\* "for laser in self.Map.Lasers: if sword_collides_with_projectile:
\*   laser.Reflect()" (lines 127-134).
SwordLoop(player, lasers) ==
    [i \in 1..Len(lasers) |->
        IF SwordCollides(player, lasers[i]) THEN Reflect(lasers[i]) ELSE lasers[i]]

\* Run, lines 115-134: player.Update, Sword.Update (which may end the swing)
\* and the sword's collisions with the lasers.
Run_UpdatePlayer ==
    /\ pc = "player"
    /\ \E swing_ends \in BOOLEAN :
        LET swinging == IsSwinging /\ ~swing_ends
        IN  /\ IsSwinging' = swinging
            /\ Lasers' = IF swinging THEN SwordLoop(Player, Lasers) ELSE Lasers
            /\ tick' = [NoTick EXCEPT !.wallHit = tick.wallHit, !.noRoute = tick.noRoute,
                                      !.swordHit =
                          IF swinging
                          THEN {Lasers[i] : i \in {j \in 1..Len(Lasers) :
                                                     SwordCollides(Player, Lasers[j])}}
                          ELSE {}]
    /\ pc' = "screen"
    /\ UNCHANGED <<LevelFilepath, NextHandler, Player, Enemies, Teleporter,
                   teleporter_activated>>

\* Run, lines 136-137: GameWindow.Update(self.Map), then the next iteration.
Run_UpdateScreen ==
    /\ pc = "screen"
    /\ pc' = "interact"
    /\ tick' = NoTick
    /\ UNCHANGED <<LevelFilepath, NextHandler, Player, IsSwinging, Enemies, Lasers,
                   Teleporter, teleporter_activated>>

Next ==
    \/ Run_Interact
    \/ Run_Quit
    \/ RunReturnedHandler
    \/ Run_UpdateEnemies
    \/ Run_UpdateLasers
    \/ Run_UpdatePlayer
    \/ Run_UpdateScreen

Spec == Init /\ [][Next]_vars

\* ------------------------------------------------- Reflect on its own
\* A single laser as Laser.__init__ leaves it, with any trajectory, reflected
\* over and over; tick keeps the laser as it was and the number of calls.
InitReflect ==
    /\ pc = "reflect"
    /\ LevelFilepath = 1
    /\ NextHandler = 0
    /\ Player = LoadPlayer(1)
    /\ IsSwinging = TRUE
    /\ Enemies = << >>
    /\ Teleporter = LoadTeleporter(1)
    /\ teleporter_activated = FALSE
    /\ \E x \in 0..2, y \in 0..1, tx \in (-MaxTrajectory)..MaxTrajectory,
          ty \in (-MaxTrajectory)..MaxTrajectory :
          LET laser == [id |-> 1, x |-> x, y |-> y, tx |-> tx, ty |-> ty,
                        HasBeenReflected |-> FALSE, hasattr |-> FALSE]
          IN  /\ Lasers = <<laser>>
              /\ tick = [original |-> laser, calls |-> 0]

Laser_Reflect ==
    /\ pc = "reflect"
    /\ tick.calls < 2
    /\ Lasers' = <<Reflect(Lasers[1])>>
    /\ tick' = [tick EXCEPT !.calls = @ + 1]
    /\ UNCHANGED <<pc, LevelFilepath, NextHandler, Player, IsSwinging, Enemies,
                   Teleporter, teleporter_activated>>

SpecReflect == InitReflect /\ [][Laser_Reflect]_vars

\* C1: Reflect turns the trajectory (dx, dy) into (-dx, -dy) and leaves the
\* position alone, so that two calls in a row give back the trajectory the
\* laser started with.
C1_ReflectRoundTrip ==
    pc = "reflect" =>
        LET laser == Lasers[1]
            was == tick.original
        IN  /\ laser.x = was.x /\ laser.y = was.y
            /\ tick.calls = 1 => (laser.tx = -was.tx /\ laser.ty = -was.ty)
            /\ tick.calls = 2 => (laser.tx = was.tx /\ laser.ty = was.ty)

\* The scenario of C1: (-2, 0) reflected twice is (-2, 0) again.
C1_Witness ==
    /\ pc = "reflect"
    /\ tick.calls = 2
    /\ tick.original.tx = -2 /\ tick.original.ty = 0
    /\ Lasers[1].tx = -2 /\ Lasers[1].ty = 0

\* ------------------------------------- a level in the middle of play
\* A level, or the room without teleporter, at the start of an iteration in
\* the middle of play: its enemies as loaded or all removed, and no laser or
\* one laser in flight, anywhere clear of the walls.  The laser is as
\* Laser.__init__ leaves it (no HasBeenReflected attribute), or was given the
\* attribute by code outside the two files, unset or set.  Run itself keeps
\* no laser from one iteration to the next (its laser loop raises), so the
\* laser is the hypothesis of the statements checked here: a laser that
\* intersects the player after the movement attempts, and a laser, marked
\* as reflected or not, that intersects an enemy in UpdateEnemies.
InitMarked ==
    \E level \in LevelFiles \cup {BareMap}, cleared \in BOOLEAN, inflight \in BOOLEAN :
    \E x \in 0..((LevelCols(level) - 1) * WidthPixels),
       y \in 0..((LevelRows(level) - 1) * HeightPixels),
       tx \in {-LaserSpeed, 0, LaserSpeed}, ty \in {-LaserSpeed, 0, LaserSpeed},
       marked \in BOOLEAN, has \in BOOLEAN :
        LET laser == [id |-> 1, x |-> x, y |-> y, tx |-> tx, ty |-> ty,
                      HasBeenReflected |-> marked, hasattr |-> has]
        IN  /\ \A wall \in GetWalls(level) : ~colliderect(wall, Coordinates(laser))
            /\ <<tx, ty>> # <<0, 0>>
            /\ marked => has
            /\ pc = "interact"
            /\ LevelFilepath = level
            /\ NextHandler = 0
            /\ Player = LoadPlayer(level)
            /\ IsSwinging = FALSE
            /\ Enemies = IF cleared THEN << >> ELSE LevelEnemies(level)
            /\ Lasers = IF inflight THEN <<laser>> ELSE << >>
            /\ Teleporter = LoadTeleporter(level)
            /\ teleporter_activated = FALSE
            /\ tick = NoTick

SpecMarked == InitMarked /\ [][Next]_vars

\* ----------------------------------------------- the sword check on its own
\* The room with two walls when the player update and sword check of Run are
\* about to run: the sword swinging or not, a first laser anywhere clear of
\* the walls, flying in any direction, marked as reflected or not, and
\* possibly a second one.
SwordCheckLasers(level) ==
    {l \in [id : {0}, x : 0..((LevelCols(level) - 1) * WidthPixels),
            y : 0..((LevelRows(level) - 1) * HeightPixels),
            tx : {-LaserSpeed, 0, LaserSpeed}, ty : {-LaserSpeed, 0, LaserSpeed},
            HasBeenReflected : BOOLEAN, hasattr : BOOLEAN] :
        /\ l.HasBeenReflected => l.hasattr
        /\ <<l.tx, l.ty>> # <<0, 0>>
        /\ \A wall \in GetWalls(level) : ~colliderect(wall, Coordinates(l))}

InitSwordCheck ==
    \E first \in SwordCheckLasers(BareMap), second \in SwordCheckLasers(BareMap), two \in BOOLEAN,
       swinging \in BOOLEAN :
        /\ pc = "player"
        /\ LevelFilepath = BareMap
        /\ NextHandler = 0
        /\ Player = LoadPlayer(BareMap)
        /\ IsSwinging = swinging
        /\ Enemies = LevelEnemies(BareMap)
        /\ two => (second.tx = 0 /\ second.ty = LaserSpeed /\ ~second.HasBeenReflected)
        /\ ~two => second = first
        /\ Lasers = IF two THEN <<[first EXCEPT !.id = 1], [second EXCEPT !.id = 2]>>
                     ELSE <<[first EXCEPT !.id = 1]>>
        /\ Teleporter = LoadTeleporter(BareMap)
        /\ teleporter_activated = FALSE
        /\ tick = NoTick

SpecSwordCheck == InitSwordCheck /\ [][Run_UpdatePlayer]_vars

\* ------------------------------------------------ the enemy pass on its own
\* The open room when UpdateEnemies is about to run, with no laser in the
\* map: the player in any cell, a first enemy of either kind in any cell,
\* the player's included, and possibly a second enemy in the middle cell
\* (the first is then in another cell).
Cells(level) == (0..(LevelCols(level) - 1)) \X (0..(LevelRows(level) - 1))
EnemyAt(id, kind, cell) ==
    [id |-> id, kind |-> kind, x |-> cell[1] * WidthPixels, y |-> cell[2] * HeightPixels]
MiddleCell == <<2, 2>>

InitEnemyPass ==
    \E p \in Cells(OpenMap), c \in Cells(OpenMap), kind \in {"Walker", "Turret"},
       second \in {"None", "Walker", "Turret"} :
        LET first == EnemyAt(1, kind, c)
            enemies == IF second = "None" THEN <<first>>
                       ELSE <<first, EnemyAt(2, second, MiddleCell)>>
        IN  /\ second # "None" => c # MiddleCell
            /\ pc = "enemies"
            /\ LevelFilepath = OpenMap
            /\ NextHandler = 0
            /\ Player = [x |-> p[1] * WidthPixels, y |-> p[2] * HeightPixels]
            /\ IsSwinging = FALSE
            /\ Enemies = enemies
            /\ Lasers = << >>
            /\ Teleporter = LoadTeleporter(OpenMap)
            /\ teleporter_activated = FALSE
            /\ tick = NoTick

SpecEnemyPass == InitEnemyPass /\ [][Run_UpdateEnemies]_vars

\* ----------------------------------------------------------------- claims
Overlaps(a, b) == colliderect(Coordinates(a), Coordinates(b))
HitsWall(level, laser) == \E wall \in GetWalls(level) : colliderect(wall, Coordinates(laser))
Occurrences(seq, v) == Cardinality({i \in 1..Len(seq) : seq[i] = v})

\* C2: a laser the swinging sword's rectangle intersects in the sword check
\* is, after the check, still in the map's lasers, has its trajectory
\* negated and has its reflected flag set.
C2_SwordHitMarksReflected ==
    pc = "screen" =>
        \A was \in tick.swordHit :
            /\ was.id \in Ids(Lasers)
            /\ ById(Lasers, was.id).tx = -was.tx
            /\ ById(Lasers, was.id).ty = -was.ty
            /\ ById(Lasers, was.id).HasBeenReflected

\* C3: when, after the movement attempts of an iteration, the player's
\* rectangle intersects a laser, Run returns a handler for the same level
\* file and leaves enemies, teleporter state and the other lasers as they
\* were (no level change, no enemy update, no laser pass, no sword check);
\* the step after that is the reload of the same level.
C3_LaserHitRestartsLevel ==
    /\ [][(/\ pc = "interact"
           /\ pc' # "exited"
           /\ \E i \in 1..Len(Lasers) : Overlaps(Player', Lasers[i]))
          => (/\ pc' = "died"
              /\ NextHandler' = LevelFilepath
              /\ LevelFilepath' = LevelFilepath
              /\ Enemies' = Enemies
              /\ Len(Lasers') = Len(Lasers) - 1
              /\ \A i \in 1..Len(Lasers') : \E j \in 1..Len(Lasers) : Lasers'[i] = Lasers[j])]_vars
    /\ [][pc = "died"
          => (/\ pc' = "interact"
              /\ LevelFilepath' = LevelFilepath
              /\ Player' = LoadPlayer(LevelFilepath)
              /\ Enemies' = LevelEnemies(LevelFilepath)
              /\ Lasers' = << >>)]_vars

\* A tick that ended with the player's death and a restart of the level.
C3_Witness ==
    /\ pc = "died"
    /\ NextHandler = LevelFilepath
    /\ Len(tick.attempts) > 0

\* C4: when the teleporter is activated, the player survived the laser
\* check and any movement attempt of the tick returned the teleporter, Run
\* returns the handler of the next level (index + 1).
C4_TeleporterCompletesLevel ==
    (/\ pc \in {"enemies", "complete"}
     /\ teleporter_activated
     /\ \E i \in 1..Len(tick.attempts) : tick.attempts[i] = "Teleporter")
    => (pc = "complete" /\ NextHandler = LevelFilepath + 1)

\* C5: after the enemy pass, every enemy that a reflected laser intersected
\* at its policy step is gone from the map, and so is every such laser.
C5_ReflectedKillRemovesBoth ==
    pc = "lasers" =>
        /\ tick.killed \cap Ids(Enemies) = {}
        /\ tick.killers \cap Ids(Lasers) = {}

\* C6: an enemy leaves the map only in the enemy pass and only when a laser
\* whose reflected flag is set intersects its rectangle there; lasers without
\* the flag, the enemy's own fresh shot included, remove no enemy.
C6_OnlyReflectedLasersKill ==
    [][\A id \in Ids(Enemies) :
          (pc \notin {"died", "complete"} /\ id \notin Ids(Enemies'))
          => (/\ pc = "enemies"
              /\ \E i \in 1..Len(Lasers) :
                    /\ Lasers[i].HasBeenReflected
                    /\ Overlaps(ById(Enemies, id), Lasers[i]))]_vars

\* An enemy pass in which a laser without the flag intersected an enemy at
\* its policy step and every enemy stayed.
C6_Witness ==
    /\ pc = "lasers"
    /\ tick.spared # {}
    /\ tick.killed = {}
    /\ \E i \in 1..Len(Lasers), j \in 1..Len(Enemies) :
          /\ Lasers[i].id \in tick.spared
          /\ ~Lasers[i].HasBeenReflected
          /\ Overlaps(Enemies[j], Lasers[i])

\* C9: every laser in the map when the laser pass starts is advanced by its
\* trajectory exactly once in that pass.
C9_EveryLaserAdvancedOnce ==
    [][pc = "lasers" =>
          \A i \in 1..Len(Lasers) : Occurrences(tick'.advanced, Lasers[i].id) = 1]_vars

\* C10: a laser that, advanced in the laser pass, intersects the player's
\* rectangle inside the grid and clear of the walls kills the player in that
\* tick and is removed from the map.
C10_OverlapAfterPassKills ==
    [][\A i \in 1..Len(Lasers) :
          (/\ pc = "lasers"
           /\ Overlaps(Player, LaserUpdate(Lasers[i]))
           /\ ~HitsWall(LevelFilepath, LaserUpdate(Lasers[i]))
           /\ ObjectInBounds(LevelFilepath, Coordinates(LaserUpdate(Lasers[i]))))
          => (pc' = "died" /\ Lasers[i].id \notin Ids(Lasers'))]_vars

GridOf(o) == GetGridPosition(Center(o))
Range(seq) == {seq[i] : i \in 1..Len(seq)}
Abs(n) == IF n < 0 THEN -n ELSE n
\* The walking enemies UpdateEnemies took through its distance test.
WalkerRecords == {p \in Range(tick.policy) : p.kind = "Walker" /\ ~p.removed}

\* C11: for a walker and a player at integer grid positions with Euclidean
\* distance d in cells, d < 3.5 is RETREAT, 3.5 <= d < 4.5 is HOLD and
\* d >= 4.5 is APPROACH (as 4 d^2 < 49 and 4 d^2 < 81), exactly one of the
\* three, and in HOLD the enemy pass leaves the walker where it was.
C11_ThreeZones ==
    pc = "lasers" =>
        \A p \in WalkerRecords :
            LET e == GridOf(p)
                q == GridOf(Player)
                dd4 == 4 * ((e[1] - q[1]) * (e[1] - q[1]) + (e[2] - q[2]) * (e[2] - q[2]))
            IN  /\ p.zone \in {"RETREAT", "HOLD", "APPROACH"}
                /\ p.zone = "RETREAT" <=> dd4 < 49
                /\ p.zone = "HOLD" <=> (49 <= dd4 /\ dd4 < 81)
                /\ p.zone = "APPROACH" <=> 81 <= dd4
                /\ p.zone = "HOLD" =>
                      /\ p.id \in Ids(Enemies)
                      /\ ById(Enemies, p.id).x = p.x
                      /\ ById(Enemies, p.id).y = p.y

\* A walker just outside the minimum distance (d^2 = 13, d = 3.6) that held
\* its position.
C11_Witness ==
    /\ pc = "lasers"
    /\ \E p \in WalkerRecords :
          LET e == GridOf(p)
              q == GridOf(Player)
          IN  /\ (e[1] - q[1]) * (e[1] - q[1]) + (e[2] - q[2]) * (e[2] - q[2]) = 13
              /\ p.zone = "HOLD"
              /\ ById(Enemies, p.id).x = p.x /\ ById(Enemies, p.id).y = p.y

\* C12: a walker in RETREAT tries Up only when its row is above the
\* player's, Down only when below, Left only when its column is left of the
\* player's, Right only when right of it, so that no attempt brings it
\* closer on either axis; in the player's own cell it tries nothing.
C12_RetreatPointsAway ==
    pc = "lasers" =>
        \A p \in WalkerRecords :
            LET e == GridOf(p)
                q == GridOf(Player)
                now == GridOf(ById(Enemies, p.id))
                tried == Range(p.directions)
            IN  p.zone = "RETREAT" =>
                  /\ "Up" \in tried => e[2] < q[2]
                  /\ "Down" \in tried => e[2] > q[2]
                  /\ "Left" \in tried => e[1] < q[1]
                  /\ "Right" \in tried => e[1] > q[1]
                  /\ e = q => tried = {}
                  /\ Abs(now[1] - q[1]) >= Abs(e[1] - q[1])
                  /\ Abs(now[2] - q[2]) >= Abs(e[2] - q[2])

\* An enemy pass with two walkers in RETREAT: one tried two directions and
\* got further from the player on both axes, the other shares the player's
\* grid cell, was asked to shoot and tried no direction.
C12_Witness ==
    /\ pc = "lasers"
    /\ \E p \in WalkerRecords :
          LET e == GridOf(p)
              q == GridOf(Player)
              now == GridOf(ById(Enemies, p.id))
          IN  /\ p.zone = "RETREAT"
              /\ Len(p.directions) = 2
              /\ Abs(now[1] - q[1]) > Abs(e[1] - q[1])
              /\ Abs(now[2] - q[2]) > Abs(e[2] - q[2])
    /\ \E s \in WalkerRecords :
          /\ GridOf(s) = GridOf(Player)
          /\ s.zone = "RETREAT"
          /\ s.tried
          /\ s.directions = << >>
          /\ ById(Enemies, s.id).x = s.x /\ ById(Enemies, s.id).y = s.y

\* The 5x5 open room with the player in cell (0,0) and a single walker that
\* was in cell (4,4) when the enemy pass started.
OpenRoomScenario ==
    /\ pc = "lasers"
    /\ LevelFilepath = OpenMap
    /\ GridOf(Player) = <<0, 0>>
    /\ Len(tick.policy) = 1
    /\ tick.policy[1].kind = "Walker"
    /\ ~tick.policy[1].removed
    /\ GridOf(tick.policy[1]) = <<4, 4>>

\* C13: in that scenario the walker is in APPROACH, the path from (4,4) to
\* (0,0) has 9 cells, the walker aims at the second cell of the path and
\* tries exactly one direction, Up or Left, which brings it one cell closer
\* to (0,0).
C13_OpenRoomApproach ==
    OpenRoomScenario =>
        LET p == tick.policy[1]
            now == GridOf(ById(Enemies, p.id))
        IN  /\ p.zone = "APPROACH"
            /\ Len(p.path) = 9
            /\ p.path[1] = <<4, 4>>
            /\ p.path[9] = <<0, 0>>
            /\ \A i \in 1..8 :
                  Abs(p.path[i][1] - p.path[i + 1][1]) + Abs(p.path[i][2] - p.path[i + 1][2]) = 1
            /\ p.directions \in {<<"Up">>, <<"Left">>}
            /\ now = p.path[2]
            /\ now \in {<<4, 3>>, <<3, 4>>}

\* The scenario after the enemy pass, the walker one cell on.
C13_Witness ==
    /\ OpenRoomScenario
    /\ Lasers = << >>
    /\ GridOf(Enemies[1]) \in {<<4, 3>>, <<3, 4>>}
    /\ Len(tick.policy[1].path) = 9

\* C15: the enemy pass never moves a turret, however near or far the player
\* is, and a turret that no reflected laser intersects is still targeted at
\* the player and still asked to shoot in that pass.
C15_TurretStaysAndShoots ==
    [][pc = "enemies" =>
          \A i \in 1..Len(Enemies) :
              LET e == Enemies[i]
                  hit == \E j \in 1..Len(Lasers) :
                            Lasers[j].HasBeenReflected /\ Overlaps(e, Lasers[j])
              IN  e.kind = "Turret" =>
                      /\ e.id \in Ids(Enemies') => ById(Enemies', e.id) = e
                      /\ ~hit =>
                            /\ e.id \in Ids(Enemies')
                            /\ \E p \in Range(tick'.policy) :
                                  /\ p.id = e.id
                                  /\ p.targeted /\ p.tried /\ p.directions = << >>]_vars

\* C18: in the enemy pass an enemy that a reflected laser intersects is
\* removed and is neither targeted, nor asked to shoot, nor moved; every
\* enemy in the map when the pass starts, the removed ones included, is
\* taken through the pass exactly once and in map order, and at most one
\* laser per surviving enemy is added.
C18_RemovalSkipsNobody ==
    [][pc = "enemies" =>
          /\ Len(tick'.policy) = Len(Enemies)
          /\ \A i \in 1..Len(Enemies) :
                LET e == Enemies[i]
                    p == tick'.policy[i]
                    hit == \E j \in 1..Len(Lasers) :
                              Lasers[j].HasBeenReflected /\ Overlaps(e, Lasers[j])
                IN  /\ p.id = e.id
                    /\ p.removed = hit
                    /\ hit => (/\ e.id \notin Ids(Enemies')
                               /\ ~p.targeted /\ ~p.tried /\ p.directions = << >>)
                    /\ ~hit => (e.id \in Ids(Enemies') /\ p.targeted /\ p.tried)
          /\ Len(Lasers') <= Len(Lasers) + Len(Enemies')
          /\ SubSeq(Lasers', 1, Len(Lasers)) = Lasers]_vars

\* In a map of one row, a wall cell lies between the two grid positions, so
\* that no route joins them.
WalledOff(level, a, b) ==
    /\ LevelRows(level) = 1
    /\ \E w \in LevelWalls(level) : (a[1] < w[1] /\ w[1] < b[1]) \/ (b[1] < w[1] /\ w[1] < a[1])
\* The position of Run that follows pc inside one iteration.
AfterPhase(p) ==
    CASE p = "enemies" -> "lasers" [] p = "lasers" -> "player"
      [] p = "player" -> "screen" [] p = "screen" -> "interact" [] OTHER -> p

\* C14: when a walker at 4.5 cells or more from the player, which no
\* reflected laser intersects, has no route to the player's cell, the enemy
\* pass ends without an error and leaves the walker where it was, every
\* enemy of the map is taken through the pass (removed, or targeted and
\* asked to shoot), and the laser pass, the sword check and the screen
\* update of that tick follow.
C14_NoRouteHolds ==
    /\ [][pc = "enemies" =>
            \A i \in 1..Len(Enemies) :
                LET e == Enemies[i]
                    a == GridOf(e)
                    b == GridOf(Player)
                    dd4 == 4 * ((a[1] - b[1]) * (a[1] - b[1]) + (a[2] - b[2]) * (a[2] - b[2]))
                    hit == \E j \in 1..Len(Lasers) :
                              Lasers[j].HasBeenReflected /\ Overlaps(e, Lasers[j])
                IN  (e.kind = "Walker" /\ dd4 >= 81 /\ WalledOff(LevelFilepath, a, b) /\ ~hit) =>
                        /\ pc' = "lasers"
                        /\ e.id \in Ids(Enemies')
                        /\ ById(Enemies', e.id) = e
                        /\ Len(tick'.policy) = Len(Enemies)
                        /\ tick'.policy[i].path = << >>
                        /\ tick'.policy[i].directions = << >>
                        /\ e.id \in tick'.noRoute
                        /\ \A j \in 1..Len(Enemies) :
                              /\ tick'.policy[j].id = Enemies[j].id
                              /\ tick'.policy[j].removed \/ tick'.policy[j].tried]_vars
    /\ [][(tick.noRoute # {} /\ pc \in {"lasers", "player", "screen"})
            => pc' = AfterPhase(pc)]_vars

\* C17: Run returns the next level only from a tick at whose start the map
\* holds no enemy, whose teleporter update activated the teleporter and in
\* which a movement attempt of the player returned the teleporter; a map
\* without teleporter is never completed.
C17_CompleteNeedsNoEnemies ==
    /\ [][(pc = "interact" /\ pc' = "complete")
          => (/\ Len(Enemies) = 0
              /\ Teleporter.present
              /\ teleporter_activated'
              /\ "Teleporter" \in Range(tick'.attempts)
              /\ Overlaps(Player', Teleporter)
              /\ NextHandler' = LevelFilepath + 1)]_vars
    /\ [][~LevelHasTeleporter(LevelFilepath) => pc' # "complete"]_vars
    /\ [][Len(Enemies) > 0 => pc' # "complete"]_vars

\* A tick in which the player walked into the teleporter of a level that
\* still holds an enemy, and that went on to the enemy pass.
C17_Witness ==
    /\ pc = "enemies"
    /\ Len(Enemies) > 0
    /\ Teleporter.present
    /\ ~teleporter_activated
    /\ "Teleporter" \in Range(tick.attempts)

====
